---- MODULE Spec2Model ----
(***************************************************************************)
(* A model of the contact directory's three React components:              *)
(*   - ListingPage       (src/src/pages/user/ListingPage.tsx)              *)
(*   - FilterPanel       (src/src/components/FilterPanel.tsx)              *)
(*   - ContactManagement (src/src/pages/admin/ContactManagement.tsx)       *)
(*                                                                         *)
(* A component's useState cells are variables, a handler or an effect is   *)
(* an action, an awaited API call is a request held in flight between the  *)
(* action that issues it and the action that handles its outcome.  A       *)
(* JavaScript string is a sequence of tokens (characters), so that join    *)
(* and trim are computed; a value that may be a string or an array is      *)
(* tagged: [s |-> string] or [a |-> array].                                *)
(*                                                                         *)
(* Every action records in a history variable (last, fpLast, cmLast) the   *)
(* call it performed, the outcome it handled and what it showed, so that a *)
(* claim about one handler is an action property on the step that ran it.  *)
(***************************************************************************)
EXTENDS Integers, Sequences, FiniteSets, Bags, TLC

VARIABLES
    \* ---- ListingPage
    pc,             \* "constructed" (useState initial values) or "mounted"
    allContacts, currentPage, hasMoreData, isLoading, totalItems,
    searchParams, coins,
    isLoadingMore,  \* useInfiniteScroll's flag
    inflight,       \* bag of getContacts requests awaiting their response
    reveals,        \* set of contacts whose revealContact call is awaited
    showFilters,
    storage,        \* the browser's localStorage: key -> string or null
    last,           \* history: the step that was taken last
    \* ---- FilterPanel
    fpMounted,
    filters,
    localPersonName, localDesignation, localCity,
    debouncedPersonName, debouncedDesignation, debouncedCity,
    selectedCompanies, selectedPersonCountries, selectedCompanyCountries,
    effectDeps,     \* the debounced values the three handleChange effects last ran with
    fpLast,         \* history: the step taken last and the onFilter calls it made
    \* ---- ContactManagement
    cmPc,           \* "constructed" or "mounted"
    contactsData, loading, cmCurrentPage, cmSearchParams, error,
    showDeleteConfirmation, contactToDelete,
    selectedRows,
    showBulkStatusConfirmation, bulkStatusToSet,
    fileInputValue, \* the value of the bulk-upload file input (e.target.value)
    cmInflight,     \* bag of getContacts requests awaiting their response
    deletes,        \* handleDeleteConfirm calls awaiting deleteContact
    bulkUpdates,    \* handleBulkStatusConfirm calls awaiting Promise.all
    uploads,        \* handleBulkUpload calls awaiting bulkImportContacts
    cmLast          \* history: the step taken last, the API calls and toasts it made

listingVars == <<pc, allContacts, currentPage, hasMoreData, isLoading, totalItems,
                 searchParams, coins, isLoadingMore, inflight, reveals,
                 showFilters, storage, last>>

filterVars == <<fpMounted, filters, localPersonName, localDesignation, localCity,
                debouncedPersonName, debouncedDesignation, debouncedCity,
                selectedCompanies, selectedPersonCountries, selectedCompanyCountries,
                effectDeps, fpLast>>

adminVars == <<cmPc, contactsData, loading, cmCurrentPage, cmSearchParams, error,
               showDeleteConfirmation, contactToDelete, selectedRows,
               showBulkStatusConfirmation, bulkStatusToSet, fileInputValue,
               cmInflight, deletes, bulkUpdates, uploads, cmLast>>

vars == <<listingVars, filterVars, adminVars>>

----------------------------------------------------------------------------
(* Bounds of the model *)

\* The last page the server reports for the unfiltered query.
MaxPage == 2
\* getContacts requests of the listing page in flight at once.
MaxInflight == 2
\* Contacts the server returns per page.
PageLen == 2

(* Program constants *)

ITEMS_PER_PAGE == 10
RevealThreshold == 50

----------------------------------------------------------------------------
(* Values *)

\* JavaScript's null
Null == [null |-> TRUE]

Str(x) == [s |-> x]
Arr(x) == [a |-> x]
IsArray(v) == "a" \in DOMAIN v

FilterKeys == {"company_name", "person_name", "department", "designation",
               "company_type", "person_country", "company_country", "city"}

\* Array.isArray(value) ? value.length === 0 : value === ''
IsEmptyValue(v) == IF IsArray(v) THEN Len(v.a) = 0 ELSE v.s = <<>>

\* Array.prototype.join(',')
RECURSIVE Join(_)
Join(a) == IF a = <<>> THEN <<>>
           ELSE IF Len(a) = 1 THEN a[1]
           ELSE a[1] \o <<",">> \o Join(Tail(a))

\* useState's initial searchParams of ListingPage
InitialSearchParams ==
    [company_name |-> Arr(<<>>), person_name |-> Str(<<>>), department |-> Str(<<>>),
     designation |-> Str(<<>>), company_type |-> Str(<<>>), person_country |-> Str(<<>>),
     company_country |-> Str(<<>>), city |-> Str(<<>>)]

\* FilterPanel's initialFilters
initialFilters ==
    [company_name |-> Arr(<<>>), person_name |-> Str(<<>>), department |-> Str(<<>>),
     designation |-> Str(<<>>), company_type |-> Str(<<>>), person_country |-> Arr(<<>>),
     company_country |-> Arr(<<>>), city |-> Str(<<>>)]

\* The filters the listing page's handleFilter is called with.
FilterInputs ==
    << initialFilters,
       [initialFilters EXCEPT !.person_name = Str(<<"ann">>)],
       [initialFilters EXCEPT !.company_name = Arr(<< <<"acme">>, <<"bayer">> >>),
                              !.city = Str(<<"pune">>)] >>

----------------------------------------------------------------------------
(* The HTTP API, an external collaborator: what a request is answered with  *)

\* fetchContacts: the parameters handed to getContacts
ApiParams(sp, page) ==
    [k \in FilterKeys \cup {"page", "per_page"} |->
        IF k = "page" THEN page
        ELSE IF k = "per_page" THEN ITEMS_PER_PAGE
        ELSE IF k = "company_name"
             THEN (IF IsArray(sp[k]) THEN Str(Join(sp[k].a)) ELSE sp[k])
             ELSE sp[k]]

Request(sp, page, isLoadMore) == [params |-> ApiParams(sp, page), isLoadMore |-> isLoadMore]

\* The query of a request: its non-empty filter fields.
QueryOf(p) == {<<k, p[k]>> : k \in {f \in FilterKeys : ~IsEmptyValue(p[f])}}

ServerLastPage(p) == IF QueryOf(p) = {} THEN MaxPage ELSE 1

ServerContact(p, k) ==
    [id |-> <<QueryOf(p), p.page, k>>, person_name |-> <<"p", k>>, email |-> <<>>]

ServerResponse(p) ==
    [data |-> IF p.page <= ServerLastPage(p)
              THEN [k \in 1..PageLen |-> ServerContact(p, k)] ELSE <<>>,
     total |-> ServerLastPage(p) * PageLen,
     current_page |-> p.page,
     last_page |-> ServerLastPage(p)]

\* revealContact's response for a contact, with `credit` left.
RevealResponse(c, credit) ==
    [available_credit |-> credit,
     contact |-> [id |-> c.id, email |-> <<"e">>, phone |-> <<"1">>]]

----------------------------------------------------------------------------
(* ListingPage *)

\* A slip in the spread's order: { ...r, ...c }, the old fields win.
OverlayOldWins(c, r) ==
    [f \in DOMAIN c \cup DOMAIN r |-> IF f \in DOMAIN c THEN c[f] ELSE r[f]]

\* { ...c, ...r }
Overlay(c, r) ==
    [f \in DOMAIN c \cup DOMAIN r |-> IF f \in DOMAIN r THEN r[f] ELSE c[f]]

\* A slip in the append: the new page is put in front of the list.
AppendContactsInFront(prevContacts, data) == data \o prevContacts

\* setAllContacts(prevContacts => [...prevContacts, ...response.data])
AppendContacts(prevContacts, data) == prevContacts \o data

\* A slip in the replace: the first page is appended to what is shown.
ReplaceContactsByAppend(prevContacts, data) == prevContacts \o data

\* setAllContacts(response.data)
ReplaceContacts(prevContacts, data) == data

\* prevContacts.map(c => c.id === contact.id ? { ...c, ...response.contact } : c)
PatchContacts(prevContacts, id, revealed) ==
    [i \in DOMAIN prevContacts |->
        IF prevContacts[i].id = id THEN Overlay(prevContacts[i], revealed)
        ELSE prevContacts[i]]

\* useInfiniteScroll's `enabled` option
ScrollEnabled == ~isLoading /\ hasMoreData

\* handleFilter: newFilters, the eight fields of the filters received
NewFilters(f) == [k \in FilterKeys |-> f[k]]

\* A slip in the count: every field is counted.
ActiveFilterCountAll(f) == Cardinality(FilterKeys)

\* handleFilter: activeFilterCount
ActiveFilterCount(f) == Cardinality({k \in FilterKeys : ~IsEmptyValue(f[k])})

\* handleFilter's toast: `Applied ${n} filter${n !== 1 ? 's' : ''}`, unless
\* every field is empty (isClearing).
FilterToasts(f) ==
    IF \A k \in FilterKeys : IsEmptyValue(f[k]) THEN <<>>
    ELSE << <<"success", "Applied", ActiveFilterCount(f),
              IF ActiveFilterCount(f) # 1 THEN "filters" ELSE "filter">> >>

\* A slip in the comparison: a page before the last one reports no more data.
HasMoreAfterNext(response) == response.current_page + 1 < response.last_page

\* setHasMoreData's argument: response.current_page < response.last_page
HasMore(response) == response.current_page < response.last_page

\* A slip in the comparison: 50 credits are taken as enough.
InsufficientCreditsBelow(c) == c < RevealThreshold

\* handleRevealContact's guard: coins <= 50
InsufficientCredits(c) == c <= RevealThreshold

\* A slip in the finally: the main loading flag is never cleared.
LoadingAfterNeverCleared(isLoadMore, shown) == shown

\* fetchContacts' finally: if (!isLoadMore) setIsLoading(false)
LoadingAfter(isLoadMore, shown) == IF isLoadMore THEN shown ELSE FALSE

\* The key the visibility of the filter panel is stored under.
VisibilityKey == "contactsFilterVisibility"

\* localStorage.getItem(key)
GetItem(st, key) == st[key]

\* localStorage.setItem(key, value)
SetItem(st, key, value) == [st EXCEPT ![key] = value]

\* Boolean.prototype.toString
BoolToString(b) == Str(IF b THEN <<"true">> ELSE <<"false">>)

\* A slip in the load effect: the stored value is not looked at.
LoadedVisibilityIgnoresStorage(saved, shown) == shown

\* The load effect: if (saved !== null) setShowFilters(saved === 'true')
LoadedVisibility(saved, shown) == IF saved # Null THEN saved = Str(<<"true">>) ELSE shown

ListingInit ==
    /\ showFilters = TRUE
    /\ storage = [contactsFilterVisibility |-> Null]
    /\ pc = "constructed"
    /\ allContacts = <<>>
    /\ currentPage = 1
    /\ hasMoreData = TRUE
    /\ isLoading = TRUE
    /\ totalItems = 0
    /\ searchParams = InitialSearchParams
    /\ coins = RevealThreshold + 1
    /\ isLoadingMore = FALSE
    /\ inflight = EmptyBag
    /\ reveals = {}
    /\ last = [op |-> "construct"]

(* The first commit.  The mounted FilterPanels' effects run first and call  *)
(* onFilter with initialFilters (setSearchParams, a new object); then the    *)
(* page's own effects: the initial fetch and the searchParams effect, both  *)
(* with the searchParams of the first render; then the effect that loads    *)
(* the stored visibility and the one that saves showFilters (of the first   *)
(* render).  The re-render that follows runs the searchParams effect again, *)
(* with the filters the panels sent, and, the visibility having changed,    *)
(* the save effect.                                                         *)
Mount ==
    /\ pc = "constructed"
    /\ pc' = "mounted"
    /\ searchParams' = NewFilters(initialFilters)
    /\ currentPage' = 1
    /\ allContacts' = <<>>
    /\ hasMoreData' = TRUE
    /\ isLoading' = TRUE
    /\ inflight' = inflight (+) SetToBag({Request(searchParams, 1, FALSE)})
                            (+) SetToBag({Request(searchParams, 1, FALSE)})
                            (+) SetToBag({Request(searchParams', 1, FALSE)})
    /\ showFilters' = LoadedVisibility(GetItem(storage, VisibilityKey), showFilters)
    /\ storage' = SetItem(SetItem(storage, VisibilityKey, BoolToString(showFilters)),
                          VisibilityKey, BoolToString(showFilters'))
    /\ last' = [op |-> "mount", toasts |-> <<>>]
    /\ UNCHANGED <<totalItems, coins, isLoadingMore, reveals>>
    /\ UNCHANGED <<filterVars, adminVars>>

(* handleFilter(filters), and the searchParams effect of the render that     *)
(* follows it: reset of the infinite scroll, fetchContacts(1, false).        *)
HandleFilter(f) ==
    /\ pc = "mounted"
    /\ BagCardinality(inflight) < MaxInflight
    /\ searchParams' = NewFilters(f)
    /\ currentPage' = 1
    /\ allContacts' = <<>>
    /\ hasMoreData' = TRUE
    /\ isLoading' = TRUE
    /\ inflight' = inflight (+) SetToBag({Request(searchParams', 1, FALSE)})
    /\ last' = [op |-> "handleFilter", filters |-> f, toasts |-> FilterToasts(NewFilters(f))]
    /\ UNCHANGED <<pc, totalItems, coins, isLoadingMore, reveals>>
    /\ UNCHANGED <<showFilters, storage>>
    /\ UNCHANGED <<filterVars, adminVars>>

(* The scroll trigger of useInfiniteScroll calls loadMoreContacts.           *)
LoadMoreContacts ==
    /\ pc = "mounted"
    /\ ScrollEnabled
    /\ ~isLoadingMore
    /\ BagCardinality(inflight) < MaxInflight
    /\ currentPage <= MaxPage
    /\ currentPage' = currentPage + 1
    /\ isLoadingMore' = TRUE
    /\ inflight' = inflight (+) SetToBag({Request(searchParams, currentPage + 1, TRUE)})
    /\ last' = [op |-> "loadMore", toasts |-> <<>>]
    /\ UNCHANGED <<pc, allContacts, hasMoreData, isLoading, totalItems, searchParams,
                   coins, reveals>>
    /\ UNCHANGED <<showFilters, storage>>
    /\ UNCHANGED <<filterVars, adminVars>>

(* fetchContacts after `await getContacts`: the request succeeded.          *)
FetchSuccess(r) ==
    LET response == ServerResponse(r.params) IN
    /\ pc = "mounted"
    /\ BagIn(r, inflight)
    /\ inflight' = inflight (-) SetToBag({r})
    /\ allContacts' = IF r.isLoadMore THEN AppendContacts(allContacts, response.data)
                      ELSE ReplaceContacts(allContacts, response.data)
    /\ currentPage' = IF r.isLoadMore THEN currentPage ELSE 1
    /\ totalItems' = response.total
    /\ hasMoreData' = HasMore(response)
    /\ isLoading' = LoadingAfter(r.isLoadMore, isLoading)
    /\ isLoadingMore' = IF r.isLoadMore THEN FALSE ELSE isLoadingMore
    /\ last' = [op |-> "fetchOk", req |-> r, response |-> response, toasts |-> <<>>]
    /\ UNCHANGED <<pc, searchParams, coins, reveals>>
    /\ UNCHANGED <<showFilters, storage>>
    /\ UNCHANGED <<filterVars, adminVars>>

(* A slip in the catch: the list is cleared for a load-more as well.         *)
FetchFailureClearsAlways(r) ==
    /\ pc = "mounted"
    /\ BagIn(r, inflight)
    /\ inflight' = inflight (-) SetToBag({r})
    /\ allContacts' = <<>>
    /\ totalItems' = 0
    /\ hasMoreData' = FALSE
    /\ isLoading' = LoadingAfter(r.isLoadMore, isLoading)
    /\ isLoadingMore' = IF r.isLoadMore THEN FALSE ELSE isLoadingMore
    /\ last' = [op |-> "fetchFailed", req |-> r,
                toasts |-> << <<"error", "Failed to fetch contacts">> >>]
    /\ UNCHANGED <<pc, currentPage, searchParams, coins, reveals>>
    /\ UNCHANGED <<showFilters, storage>>
    /\ UNCHANGED <<filterVars, adminVars>>

(* fetchContacts' catch: the request failed.                                 *)
FetchFailure(r) ==
    /\ pc = "mounted"
    /\ BagIn(r, inflight)
    /\ inflight' = inflight (-) SetToBag({r})
    /\ allContacts' = IF r.isLoadMore THEN allContacts ELSE <<>>
    /\ totalItems' = IF r.isLoadMore THEN totalItems ELSE 0
    /\ hasMoreData' = IF r.isLoadMore THEN hasMoreData ELSE FALSE
    /\ isLoading' = LoadingAfter(r.isLoadMore, isLoading)
    /\ isLoadingMore' = IF r.isLoadMore THEN FALSE ELSE isLoadingMore
    /\ last' = [op |-> "fetchFailed", req |-> r,
                toasts |-> << <<"error", "Failed to fetch contacts">> >>]
    /\ UNCHANGED <<pc, currentPage, searchParams, coins, reveals>>
    /\ UNCHANGED <<showFilters, storage>>
    /\ UNCHANGED <<filterVars, adminVars>>

(* handleRevealContact(contact) up to `await revealContact`.  The Add button *)
(* is rendered for a row without an email.                                   *)
HandleRevealContact(i) ==
    LET contact == allContacts[i] IN
    /\ pc = "mounted"
    /\ contact.email = <<>>
    /\ IF InsufficientCredits(coins)
       THEN /\ last' = [op |-> "revealRefused", contact |-> contact,
                        toasts |-> << <<"error", "Insufficient credits">> >>]
            /\ UNCHANGED reveals
       ELSE /\ reveals = {}
            /\ reveals' = reveals \cup {contact}
            /\ last' = [op |-> "revealCall", contact |-> contact, toasts |-> <<>>]
    /\ UNCHANGED <<pc, allContacts, currentPage, hasMoreData, isLoading, totalItems,
                   searchParams, coins, isLoadingMore, inflight>>
    /\ UNCHANGED <<showFilters, storage>>
    /\ UNCHANGED <<filterVars, adminVars>>

(* handleRevealContact after `await revealContact`: the call succeeded.      *)
RevealSuccess(contact, credit) ==
    LET response == RevealResponse(contact, credit) IN
    /\ contact \in reveals
    /\ reveals' = reveals \ {contact}
    /\ coins' = response.available_credit
    /\ allContacts' = PatchContacts(allContacts, contact.id, response.contact)
    /\ last' = [op |-> "revealOk", contact |-> contact, response |-> response,
                toasts |-> << <<"success", "Added", contact.person_name>> >>]
    /\ UNCHANGED <<pc, currentPage, hasMoreData, isLoading, totalItems, searchParams,
                   isLoadingMore, inflight>>
    /\ UNCHANGED <<showFilters, storage>>
    /\ UNCHANGED <<filterVars, adminVars>>

(* A slip in the catch: the credit is taken although the call failed.        *)
RevealFailureCharges(contact) ==
    /\ contact \in reveals
    /\ reveals' = reveals \ {contact}
    /\ coins' = coins - 1
    /\ last' = [op |-> "revealFailed", contact |-> contact,
                toasts |-> << <<"error", "Failed to reveal contact information">> >>]
    /\ UNCHANGED <<pc, allContacts, currentPage, hasMoreData, isLoading, totalItems,
                   searchParams, isLoadingMore, inflight>>
    /\ UNCHANGED <<showFilters, storage>>
    /\ UNCHANGED <<filterVars, adminVars>>

(* handleRevealContact's catch.                                              *)
RevealFailure(contact) ==
    /\ contact \in reveals
    /\ reveals' = reveals \ {contact}
    /\ last' = [op |-> "revealFailed", contact |-> contact,
                toasts |-> << <<"error", "Failed to reveal contact information">> >>]
    /\ UNCHANGED <<pc, allContacts, currentPage, hasMoreData, isLoading, totalItems,
                   searchParams, coins, isLoadingMore, inflight>>
    /\ UNCHANGED <<showFilters, storage>>
    /\ UNCHANGED <<filterVars, adminVars>>

ListingNext ==
    \/ Mount
    \/ \E i \in 1..Len(FilterInputs) : HandleFilter(FilterInputs[i])
    \/ LoadMoreContacts
    \/ \E r \in BagToSet(inflight) : FetchSuccess(r)
    \/ \E r \in BagToSet(inflight) : FetchFailure(r)
    \/ \E i \in DOMAIN allContacts : HandleRevealContact(i)
    \/ \E c \in reveals : \E credit \in {coins - 1, coins - 2} : RevealSuccess(c, credit)
    \/ \E c \in reveals : RevealFailure(c)

----------------------------------------------------------------------------
(* FilterPanel *)

\* The keys of the three debounced text inputs, in the order of their effects.
TextKeys == <<"person_name", "designation", "city">>

\* What is typed into a text input.
TextInputs == {<<>>, <<"a">>}

\* The options of the static and of the loaded dropdowns that are picked from.
DEPARTMENTS == {<<"Sales">>}
COMPANY_TYPES == {<<"Medical">>}
Companies == << [id |-> <<"c1">>, name |-> <<"acme">>] >>
Countries == << [id |-> <<"in">>, name |-> <<"India">>] >>

\* What a Multiselect hands to onSelect / onRemove: a list of its options.
SelectedLists(options) == {<<>>, options}

MapName(list) == [i \in DOMAIN list |-> list[i].name]
MapId(list) == [i \in DOMAIN list |-> list[i].id]

LocalText == [person_name |-> localPersonName, designation |-> localDesignation,
              city |-> localCity]

\* useDebounce(localX, 500): the value each debounced cell holds
Debounced == [person_name |-> debouncedPersonName, designation |-> debouncedDesignation,
              city |-> debouncedCity]

\* const newFilters = { ...filters, [key]: value }
HandleChangeFilters(closureFilters, key, value) == [closureFilters EXCEPT ![key] = value]

\* An onFilter call, as recorded in fpLast.calls.
Call(via, key, f) == [via |-> via, key |-> key, filters |-> f]

\* The handleChange effects of one commit: one per key of `keys` (in the effects'
\* order), each run with the filters of the render that was committed.
EffectCalls(keys, closureFilters, deb) ==
    [i \in DOMAIN keys |->
        Call("effect", keys[i], HandleChangeFilters(closureFilters, keys[i], Str(deb[keys[i]])))]

\* setFilters after a batch of calls: the last update wins.
FiltersAfter(calls, closureFilters) ==
    IF calls = <<>> THEN closureFilters ELSE calls[Len(calls)].filters

RECURSIVE SelectSeqKeys(_, _)
SelectSeqKeys(keys, changed) ==
    IF keys = <<>> THEN <<>>
    ELSE IF Head(keys) \in changed THEN <<Head(keys)>> \o SelectSeqKeys(Tail(keys), changed)
    ELSE SelectSeqKeys(Tail(keys), changed)

\* The text keys whose debounced value differs from the one its effect last saw.
ChangedKeys == {k \in {"person_name", "designation", "city"} : Debounced[k] # effectDeps[k]}

\* A render with changed debounced values is due: nothing but a timer that is
\* already due can run before it.
CommitPending == fpMounted /\ ChangedKeys # {}

FilterInit ==
    /\ fpMounted = FALSE
    /\ filters = initialFilters
    /\ localPersonName = <<>> /\ localDesignation = <<>> /\ localCity = <<>>
    /\ debouncedPersonName = <<>> /\ debouncedDesignation = <<>> /\ debouncedCity = <<>>
    /\ selectedCompanies = <<>>
    /\ selectedPersonCountries = <<>>
    /\ selectedCompanyCountries = <<>>
    /\ effectDeps = [person_name |-> <<>>, designation |-> <<>>, city |-> <<>>]
    /\ fpLast = [op |-> "construct", calls |-> <<>>]

(* The panel's first commit: each of the three effects runs once.           *)
FPMount ==
    LET calls == EffectCalls(TextKeys, filters, Debounced) IN
    /\ ~fpMounted
    /\ fpMounted' = TRUE
    /\ filters' = FiltersAfter(calls, filters)
    /\ effectDeps' = Debounced
    /\ fpLast' = [op |-> "mount", calls |-> calls]
    /\ UNCHANGED <<localPersonName, localDesignation, localCity,
                   debouncedPersonName, debouncedDesignation, debouncedCity,
                   selectedCompanies, selectedPersonCountries, selectedCompanyCountries>>
    /\ UNCHANGED <<listingVars, adminVars>>

(* A slip: the text input calls handleChange as the two selects do.         *)
TypeTextUndebounced(key, value) ==
    /\ fpMounted /\ ~CommitPending
    /\ LocalText[key] # value
    /\ localPersonName' = IF key = "person_name" THEN value ELSE localPersonName
    /\ localDesignation' = IF key = "designation" THEN value ELSE localDesignation
    /\ localCity' = IF key = "city" THEN value ELSE localCity
    /\ filters' = HandleChangeFilters(filters, key, Str(value))
    /\ fpLast' = [op |-> "type", key |-> key,
                  calls |-> <<Call("handleChange", key, filters')>>]
    /\ UNCHANGED <<fpMounted, debouncedPersonName, debouncedDesignation, debouncedCity,
                   selectedCompanies, selectedPersonCountries, selectedCompanyCountries,
                   effectDeps>>
    /\ UNCHANGED <<listingVars, adminVars>>

(* onChange of a text input: setLocalPersonName / setLocalDesignation /     *)
(* setLocalCity.  useDebounce restarts the input's 500 ms timer.            *)
TypeText(key, value) ==
    /\ fpMounted /\ ~CommitPending
    /\ LocalText[key] # value
    /\ localPersonName' = IF key = "person_name" THEN value ELSE localPersonName
    /\ localDesignation' = IF key = "designation" THEN value ELSE localDesignation
    /\ localCity' = IF key = "city" THEN value ELSE localCity
    /\ fpLast' = [op |-> "type", key |-> key, calls |-> <<>>]
    /\ UNCHANGED <<fpMounted, filters, debouncedPersonName, debouncedDesignation,
                   debouncedCity, selectedCompanies, selectedPersonCountries,
                   selectedCompanyCountries, effectDeps>>
    /\ UNCHANGED <<listingVars, adminVars>>

(* useDebounce: the timer of an input fires, setDebouncedValue(value).  A   *)
(* timer is pending exactly while the input differs from its debounced      *)
(* value (one that fires with an equal value changes nothing).              *)
TimerFire(key) ==
    /\ fpMounted
    /\ LocalText[key] # Debounced[key]
    /\ debouncedPersonName' = IF key = "person_name" THEN localPersonName
                              ELSE debouncedPersonName
    /\ debouncedDesignation' = IF key = "designation" THEN localDesignation
                               ELSE debouncedDesignation
    /\ debouncedCity' = IF key = "city" THEN localCity ELSE debouncedCity
    /\ fpLast' = [op |-> "timer", key |-> key, calls |-> <<>>]
    /\ UNCHANGED <<fpMounted, filters, localPersonName, localDesignation, localCity,
                   selectedCompanies, selectedPersonCountries, selectedCompanyCountries,
                   effectDeps>>
    /\ UNCHANGED <<listingVars, adminVars>>

(* The render that follows the timers, and its effects: handleChange(key,   *)
(* debounced value) for every key whose debounced value changed.            *)
CommitDebounced ==
    LET keys == SelectSeqKeys(TextKeys, ChangedKeys)
        calls == EffectCalls(keys, filters, Debounced)
    IN  /\ CommitPending
        /\ filters' = FiltersAfter(calls, filters)
        /\ effectDeps' = Debounced
        /\ fpLast' = [op |-> "commit", keys |-> keys, calls |-> calls]
        /\ UNCHANGED <<fpMounted, localPersonName, localDesignation, localCity,
                       debouncedPersonName, debouncedDesignation, debouncedCity,
                       selectedCompanies, selectedPersonCountries,
                       selectedCompanyCountries>>
        /\ UNCHANGED <<listingVars, adminVars>>

(* onChange of the department and company-type selects.                     *)
SelectChange(key, value) ==
    /\ fpMounted /\ ~CommitPending
    /\ filters[key] # Str(value)
    /\ filters' = HandleChangeFilters(filters, key, Str(value))
    /\ fpLast' = [op |-> "select", key |-> key,
                  calls |-> <<Call("handleChange", key, filters')>>]
    /\ UNCHANGED <<fpMounted, localPersonName, localDesignation, localCity,
                   debouncedPersonName, debouncedDesignation, debouncedCity,
                   selectedCompanies, selectedPersonCountries, selectedCompanyCountries,
                   effectDeps>>
    /\ UNCHANGED <<listingVars, adminVars>>

(* handleCompanySelect, handlePersonCountrySelect, handleCompanyCountrySelect *)
MultiSelect(key, selectedList) ==
    /\ fpMounted /\ ~CommitPending
    /\ selectedCompanies' = IF key = "company_name" THEN selectedList ELSE selectedCompanies
    /\ selectedPersonCountries' = IF key = "person_country" THEN selectedList
                                  ELSE selectedPersonCountries
    /\ selectedCompanyCountries' = IF key = "company_country" THEN selectedList
                                   ELSE selectedCompanyCountries
    /\ selectedList # (IF key = "company_name" THEN selectedCompanies
                       ELSE IF key = "person_country" THEN selectedPersonCountries
                       ELSE selectedCompanyCountries)
    /\ filters' = HandleChangeFilters(filters, key,
                      Arr(IF key = "company_name" THEN MapName(selectedList)
                          ELSE MapId(selectedList)))
    /\ fpLast' = [op |-> "multiselect", key |-> key,
                  calls |-> <<Call("handleChange", key, filters')>>]
    /\ UNCHANGED <<fpMounted, localPersonName, localDesignation, localCity,
                   debouncedPersonName, debouncedDesignation, debouncedCity, effectDeps>>
    /\ UNCHANGED <<listingVars, adminVars>>

(* handleReset *)
HandleReset ==
    /\ fpMounted /\ ~CommitPending
    /\ filters' = initialFilters
    /\ selectedCompanies' = <<>>
    /\ selectedPersonCountries' = <<>>
    /\ selectedCompanyCountries' = <<>>
    /\ localPersonName' = <<>> /\ localDesignation' = <<>> /\ localCity' = <<>>
    /\ fpLast' = [op |-> "reset", calls |-> <<Call("handleReset", "all", initialFilters)>>]
    /\ UNCHANGED <<fpMounted, debouncedPersonName, debouncedDesignation, debouncedCity,
                   effectDeps>>
    /\ UNCHANGED <<listingVars, adminVars>>

\* The clear button of a field is rendered while the field shows a value.
ClearShown(field) ==
    CASE field = "company_name" -> Len(selectedCompanies) > 0
      [] field = "person_country" -> Len(selectedPersonCountries) > 0
      [] field = "company_country" -> Len(selectedCompanyCountries) > 0
      [] field \in {"department", "company_type"} -> filters[field].s # <<>>
      [] OTHER -> LocalText[field] # <<>>

(* clearField(field) *)
ClearField(field) ==
    /\ fpMounted /\ ~CommitPending
    /\ ClearShown(field)
    /\ selectedCompanies' = IF field = "company_name" THEN <<>> ELSE selectedCompanies
    /\ selectedPersonCountries' = IF field = "person_country" THEN <<>>
                                  ELSE selectedPersonCountries
    /\ selectedCompanyCountries' = IF field = "company_country" THEN <<>>
                                   ELSE selectedCompanyCountries
    /\ localPersonName' = IF field = "person_name" THEN <<>> ELSE localPersonName
    /\ localDesignation' = IF field = "designation" THEN <<>> ELSE localDesignation
    /\ localCity' = IF field = "city" THEN <<>> ELSE localCity
    /\ filters' = [filters EXCEPT ![field] = initialFilters[field]]
    /\ fpLast' = [op |-> "clear", key |-> field,
                  calls |-> <<Call("clearField", field, filters')>>]
    /\ UNCHANGED <<fpMounted, debouncedPersonName, debouncedDesignation, debouncedCity,
                   effectDeps>>
    /\ UNCHANGED <<listingVars, adminVars>>

(* The Search button: an immediate search with the inputs' current values.  *)
SearchClick ==
    /\ fpMounted /\ ~CommitPending
    /\ filters' = [company_name |-> Arr(MapName(selectedCompanies)),
                   person_name |-> Str(localPersonName),
                   department |-> filters.department,
                   designation |-> Str(localDesignation),
                   company_type |-> filters.company_type,
                   person_country |-> Arr(MapId(selectedPersonCountries)),
                   company_country |-> Arr(MapId(selectedCompanyCountries)),
                   city |-> Str(localCity)]
    /\ fpLast' = [op |-> "search", calls |-> <<Call("search", "all", filters')>>]
    /\ UNCHANGED <<fpMounted, localPersonName, localDesignation, localCity,
                   debouncedPersonName, debouncedDesignation, debouncedCity,
                   selectedCompanies, selectedPersonCountries, selectedCompanyCountries,
                   effectDeps>>
    /\ UNCHANGED <<listingVars, adminVars>>

FilterNext ==
    \/ FPMount
    \/ \E k \in {"person_name", "designation", "city"} : \E v \in TextInputs : TypeText(k, v)
    \/ \E k \in {"person_name", "designation", "city"} : TimerFire(k)
    \/ CommitDebounced
    \/ \E v \in DEPARTMENTS \cup {<<>>} : SelectChange("department", v)
    \/ \E v \in COMPANY_TYPES \cup {<<>>} : SelectChange("company_type", v)
    \/ \E l \in SelectedLists(Companies) : MultiSelect("company_name", l)
    \/ \E k \in {"person_country", "company_country"} :
          \E l \in SelectedLists(Countries) : MultiSelect(k, l)
    \/ HandleReset
    \/ \E k \in FilterKeys : ClearField(k)
    \/ SearchClick

----------------------------------------------------------------------------
(* ContactManagement *)

CmKeys == {"company_name", "designation", "person_country", "city"}

\* What is typed into the four search inputs (" " is a whitespace character).
CmTextInputs(key) ==
    CASE key = "company_name" -> {<<>>, <<" ", "a">>}
      [] key = "designation" -> {<<>>, <<" ">>}
      [] key = "person_country" -> {<<>>, <<"b", " ">>}
      [] OTHER -> {<<>>, <<" ", " ">>}

\* The last page the admin list has on the server.
CmLastPage == 2

\* Deletions, bulk updates and imports awaited at once.
MaxPending == 1

RECURSIVE TrimStart(_)
TrimStart(str) == IF str # <<>> /\ Head(str) = " " THEN TrimStart(Tail(str)) ELSE str

RECURSIVE TrimEnd(_)
TrimEnd(str) ==
    IF str # <<>> /\ str[Len(str)] = " " THEN TrimEnd(SubSeq(str, 1, Len(str) - 1)) ELSE str

\* String.prototype.trim
Trim(str) == TrimEnd(TrimStart(str))

\* A slip in the filter: only the empty string is left out.
SearchParamsToSendUntrimmed(sp) ==
    LET kept == {k \in DOMAIN sp : sp[k] # <<>>} IN [k \in kept |-> sp[k]]

\* Object.fromEntries(Object.entries(sp).filter(([_, value]) => value && value.trim() !== ''))
SearchParamsToSend(sp) ==
    LET kept == {k \in DOMAIN sp : sp[k] # <<>> /\ Trim(sp[k]) # <<>>}
    IN  [k \in kept |-> sp[k]]

\* The argument of getContacts in fetchContacts(page, resetFilters)
CmRequest(sp, page, resetFilters) ==
    [filters |-> SearchParamsToSend(IF resetFilters THEN <<>> ELSE sp),
     page |-> page, per_page |-> 10]

CmContact(r, k) == [id |-> <<"id", r.page, k>>, person_name |-> <<"p", r.page, k>>]

\* getContacts' response to a request of the admin console.
CmResponse(r) ==
    [data |-> IF r.page <= CmLastPage THEN <<CmContact(r, 1), CmContact(r, 2)>> ELSE <<>>,
     current_page |-> r.page, last_page |-> CmLastPage, total |-> 2 * CmLastPage,
     query |-> r.filters]

\* A confirmation dialog is open: the page behind it takes no input.
DialogOpen == showDeleteConfirmation \/ showBulkStatusConfirmation

\* The rows shown by the table.
ShownContacts == IF contactsData = Null THEN <<>> ELSE contactsData.data

AdminInit ==
    /\ cmPc = "constructed"
    /\ contactsData = Null
    /\ loading = TRUE
    /\ cmCurrentPage = 1
    /\ cmSearchParams = [company_name |-> <<>>, designation |-> <<>>,
                         person_country |-> <<>>, city |-> <<>>]
    /\ error = Null
    /\ showDeleteConfirmation = FALSE
    /\ contactToDelete = Null
    /\ selectedRows = <<>>
    /\ showBulkStatusConfirmation = FALSE
    /\ bulkStatusToSet = Null
    /\ fileInputValue = <<>>
    /\ cmInflight = EmptyBag
    /\ deletes = {}
    /\ bulkUpdates = {}
    /\ uploads = {}
    /\ cmLast = [op |-> "construct", calls |-> EmptyBag, toasts |-> <<>>]

\* fetchContacts(page, resetFilters) up to `await getContacts`
IssueFetch(bag, sp, page, resetFilters) ==
    bag (+) SetToBag({CmRequest(sp, page, resetFilters)})

(* useEffect[currentPage] of the first commit: fetchContacts(currentPage)   *)
CMMount ==
    /\ cmPc = "constructed"
    /\ cmPc' = "mounted"
    /\ loading' = TRUE
    /\ error' = Null
    /\ cmInflight' = IssueFetch(cmInflight, cmSearchParams, cmCurrentPage, FALSE)
    /\ cmLast' = [op |-> "mount", calls |-> EmptyBag, toasts |-> <<>>]
    /\ UNCHANGED <<contactsData, cmCurrentPage, cmSearchParams, showDeleteConfirmation,
                   contactToDelete, selectedRows, showBulkStatusConfirmation,
                   bulkStatusToSet, fileInputValue, deletes, bulkUpdates, uploads>>
    /\ UNCHANGED <<listingVars, filterVars>>

(* onChange of a search input: setSearchParams(prev => ({...prev, key: value})) *)
SetSearchParam(key, value) ==
    /\ cmPc = "mounted" /\ ~DialogOpen
    /\ cmSearchParams[key] # value
    /\ cmSearchParams' = [cmSearchParams EXCEPT ![key] = value]
    /\ cmLast' = [op |-> "type", calls |-> EmptyBag, toasts |-> <<>>]
    /\ UNCHANGED <<cmPc, contactsData, loading, cmCurrentPage, error,
                   showDeleteConfirmation, contactToDelete, selectedRows,
                   showBulkStatusConfirmation, bulkStatusToSet, fileInputValue,
                   cmInflight, deletes, bulkUpdates, uploads>>
    /\ UNCHANGED <<listingVars, filterVars>>

(* Pagination's onPageChange = setCurrentPage, then useEffect[currentPage]. *)
(* Pagination is rendered while contactsData has more than one page.        *)
PageChange(page) ==
    /\ cmPc = "mounted" /\ ~DialogOpen
    /\ contactsData # Null /\ contactsData.last_page > 1
    /\ page \in 1..contactsData.last_page
    /\ page # cmCurrentPage
    /\ BagCardinality(cmInflight) < MaxInflight
    /\ cmCurrentPage' = page
    /\ loading' = TRUE
    /\ error' = Null
    /\ cmInflight' = IssueFetch(cmInflight, cmSearchParams, page, FALSE)
    /\ cmLast' = [op |-> "pageChange", calls |-> EmptyBag, toasts |-> <<>>]
    /\ UNCHANGED <<cmPc, contactsData, cmSearchParams, showDeleteConfirmation,
                   contactToDelete, selectedRows, showBulkStatusConfirmation,
                   bulkStatusToSet, fileInputValue, deletes, bulkUpdates, uploads>>
    /\ UNCHANGED <<listingVars, filterVars>>

(* The Apply Filters button: setCurrentPage(1); fetchContacts(1); and the   *)
(* currentPage effect when the page was not 1.                              *)
ApplyFilters ==
    /\ cmPc = "mounted" /\ ~DialogOpen
    /\ BagCardinality(cmInflight) < MaxInflight
    /\ cmCurrentPage' = 1
    /\ loading' = TRUE
    /\ error' = Null
    /\ cmInflight' = IF cmCurrentPage # 1
                     THEN IssueFetch(IssueFetch(cmInflight, cmSearchParams, 1, FALSE),
                                     cmSearchParams, 1, FALSE)
                     ELSE IssueFetch(cmInflight, cmSearchParams, 1, FALSE)
    /\ cmLast' = [op |-> "applyFilters", calls |-> EmptyBag, toasts |-> <<>>]
    /\ UNCHANGED <<cmPc, contactsData, cmSearchParams, showDeleteConfirmation,
                   contactToDelete, selectedRows, showBulkStatusConfirmation,
                   bulkStatusToSet, fileInputValue, deletes, bulkUpdates, uploads>>
    /\ UNCHANGED <<listingVars, filterVars>>

(* The Clear Filters button: setSearchParams(empty); fetchContacts(1, true) *)
ClearFilters ==
    /\ cmPc = "mounted" /\ ~DialogOpen
    /\ BagCardinality(cmInflight) < MaxInflight
    /\ cmSearchParams' = [k \in CmKeys |-> <<>>]
    /\ loading' = TRUE
    /\ error' = Null
    /\ cmInflight' = IssueFetch(cmInflight, cmSearchParams, 1, TRUE)
    /\ cmLast' = [op |-> "clearFilters", calls |-> EmptyBag,
                  toasts |-> << <<"success", "Filters Cleared">> >>]
    /\ UNCHANGED <<cmPc, contactsData, cmCurrentPage, showDeleteConfirmation,
                   contactToDelete, selectedRows, showBulkStatusConfirmation,
                   bulkStatusToSet, fileInputValue, deletes, bulkUpdates, uploads>>
    /\ UNCHANGED <<listingVars, filterVars>>

(* fetchContacts after `await getContacts`: success.                        *)
CMFetchSuccess(r) ==
    /\ BagIn(r, cmInflight)
    /\ cmInflight' = cmInflight (-) SetToBag({r})
    /\ contactsData' = CmResponse(r)
    /\ loading' = FALSE
    /\ cmLast' = [op |-> "fetchOk", req |-> r, response |-> CmResponse(r),
                  calls |-> EmptyBag, toasts |-> <<>>]
    /\ UNCHANGED <<cmPc, cmCurrentPage, cmSearchParams, error, showDeleteConfirmation,
                   contactToDelete, selectedRows, showBulkStatusConfirmation,
                   bulkStatusToSet, fileInputValue, deletes, bulkUpdates, uploads>>
    /\ UNCHANGED <<listingVars, filterVars>>

\* fetchContacts' catch: the message for an error with response.status
FetchErrorMessage(status) ==
    IF status = 422 THEN "Invalid search parameters. Please check your input."
    ELSE "Failed to fetch contacts"

(* fetchContacts' catch and finally.                                        *)
CMFetchFailure(r, status) ==
    /\ BagIn(r, cmInflight)
    /\ cmInflight' = cmInflight (-) SetToBag({r})
    /\ contactsData' = Null
    /\ error' = [message |-> FetchErrorMessage(status)]
    /\ loading' = FALSE
    /\ cmLast' = [op |-> "fetchFailed", req |-> r, calls |-> EmptyBag,
                  toasts |-> << <<"error", "Search Failed">> >>]
    /\ UNCHANGED <<cmPc, cmCurrentPage, cmSearchParams, showDeleteConfirmation,
                   contactToDelete, selectedRows, showBulkStatusConfirmation,
                   bulkStatusToSet, fileInputValue, deletes, bulkUpdates, uploads>>
    /\ UNCHANGED <<listingVars, filterVars>>

\* The refetch a handler makes after its await: fetchContacts(currentPage) of
\* the render the handler was created in (`closure`: its page and searchParams).
Closure == [page |-> cmCurrentPage, sp |-> cmSearchParams]

Refetch(bag, closure) == IssueFetch(bag, closure.sp, closure.page, FALSE)

(* handleDeleteClick(contact): the trash button of a row.                   *)
HandleDeleteClick(contact) ==
    /\ cmPc = "mounted" /\ ~DialogOpen
    /\ contactToDelete' = contact
    /\ showDeleteConfirmation' = TRUE
    /\ cmLast' = [op |-> "deleteClick", calls |-> EmptyBag, toasts |-> <<>>]
    /\ UNCHANGED <<cmPc, contactsData, loading, cmCurrentPage, cmSearchParams, error,
                   selectedRows, showBulkStatusConfirmation, bulkStatusToSet,
                   fileInputValue, cmInflight, deletes, bulkUpdates, uploads>>
    /\ UNCHANGED <<listingVars, filterVars>>

(* handleDeleteConfirm up to `await deleteContact`.  The handler is also    *)
(* run with no dialog open, which is when its guard returns.                *)
HandleDeleteConfirm ==
    /\ cmPc = "mounted"
    /\ BagCardinality(cmInflight) < MaxInflight
    /\ IF contactToDelete = Null
       THEN /\ cmLast' = [op |-> "deleteConfirm", calls |-> EmptyBag, toasts |-> <<>>]
            /\ UNCHANGED deletes
       ELSE /\ Cardinality(deletes) < MaxPending
            /\ deletes' = deletes \cup {[id |-> contactToDelete.id, closure |-> Closure]}
            /\ cmLast' = [op |-> "deleteConfirm",
                          calls |-> SetToBag({[fn |-> "deleteContact",
                                               id |-> contactToDelete.id]}),
                          toasts |-> <<>>]
    /\ UNCHANGED <<cmPc, contactsData, loading, cmCurrentPage, cmSearchParams, error,
                   showDeleteConfirmation, contactToDelete, selectedRows,
                   showBulkStatusConfirmation, bulkStatusToSet, fileInputValue,
                   cmInflight, bulkUpdates, uploads>>
    /\ UNCHANGED <<listingVars, filterVars>>

(* handleDeleteConfirm after `await deleteContact`: try, catch and finally. *)
DeleteDone(d, ok) ==
    /\ d \in deletes
    /\ deletes' = deletes \ {d}
    /\ IF ok
       THEN /\ cmInflight' = Refetch(cmInflight, d.closure)
            /\ loading' = TRUE
            /\ error' = Null
            /\ cmLast' = [op |-> "deleteOk", calls |-> EmptyBag,
                          toasts |-> << <<"success", "Deleted">> >>]
       ELSE /\ cmLast' = [op |-> "deleteFailed", calls |-> EmptyBag,
                          toasts |-> << <<"error", "Delete Failed">> >>]
            /\ UNCHANGED <<cmInflight, loading, error>>
    /\ showDeleteConfirmation' = FALSE
    /\ contactToDelete' = Null
    /\ UNCHANGED <<cmPc, contactsData, cmCurrentPage, cmSearchParams, selectedRows,
                   showBulkStatusConfirmation, bulkStatusToSet, fileInputValue,
                   bulkUpdates, uploads>>
    /\ UNCHANGED <<listingVars, filterVars>>

(* A slip in the cancel: the dialog closes and the contact stays stored.    *)
DeleteCancelKeepsContact ==
    /\ cmPc = "mounted"
    /\ showDeleteConfirmation
    /\ showDeleteConfirmation' = FALSE
    /\ cmLast' = [op |-> "deleteCancel", calls |-> EmptyBag, toasts |-> <<>>]
    /\ UNCHANGED <<cmPc, contactsData, loading, cmCurrentPage, cmSearchParams, error,
                   contactToDelete, selectedRows, showBulkStatusConfirmation,
                   bulkStatusToSet, fileInputValue, cmInflight, deletes, bulkUpdates,
                   uploads>>
    /\ UNCHANGED <<listingVars, filterVars>>

(* The delete dialog's onCancel.                                            *)
DeleteCancel ==
    /\ cmPc = "mounted"
    /\ showDeleteConfirmation
    /\ showDeleteConfirmation' = FALSE
    /\ contactToDelete' = Null
    /\ cmLast' = [op |-> "deleteCancel", calls |-> EmptyBag, toasts |-> <<>>]
    /\ UNCHANGED <<cmPc, contactsData, loading, cmCurrentPage, cmSearchParams, error,
                   selectedRows, showBulkStatusConfirmation, bulkStatusToSet,
                   fileInputValue, cmInflight, deletes, bulkUpdates, uploads>>
    /\ UNCHANGED <<listingVars, filterVars>>

\* What the table hands to onSelectionChange for the rows it shows: a
\* Record<string, boolean> from row ids to checked.
RowSelections(rows) ==
    IF Len(rows) < 2 THEN {<<>>}
    ELSE {<<>>, (rows[1].id :> TRUE), (rows[1].id :> TRUE) @@ (rows[2].id :> FALSE),
          (rows[1].id :> TRUE) @@ (rows[2].id :> TRUE)}

\* A slip in the filter: every key of selectedRows is taken.
SelectedIdsUnfiltered(rows) == DOMAIN rows

\* Object.entries(selectedRows).filter(([_, selected]) => selected).map(([id]) => id)
SelectedIds(rows) == {id \in DOMAIN rows : rows[id]}

(* Table's onSelectionChange = setSelectedRows                              *)
SelectRows(selection) ==
    /\ cmPc = "mounted" /\ ~DialogOpen
    /\ selection # selectedRows
    /\ selectedRows' = selection
    /\ cmLast' = [op |-> "selectRows", calls |-> EmptyBag, toasts |-> <<>>]
    /\ UNCHANGED <<cmPc, contactsData, loading, cmCurrentPage, cmSearchParams, error,
                   showDeleteConfirmation, contactToDelete, showBulkStatusConfirmation,
                   bulkStatusToSet, fileInputValue, cmInflight, deletes, bulkUpdates,
                   uploads>>
    /\ UNCHANGED <<listingVars, filterVars>>

\* The options of the Change Status select.
BulkStatuses == {Str(<<"Active">>), Str(<<"Inactive">>)}

(* handleBulkStatusClick(status): the Change Status select, rendered while  *)
(* at least one row is selected.                                            *)
HandleBulkStatusClick(status) ==
    /\ cmPc = "mounted" /\ ~DialogOpen
    /\ SelectedIds(selectedRows) # {}
    /\ bulkStatusToSet' = status
    /\ showBulkStatusConfirmation' = TRUE
    /\ cmLast' = [op |-> "bulkStatusClick", calls |-> EmptyBag, toasts |-> <<>>]
    /\ UNCHANGED <<cmPc, contactsData, loading, cmCurrentPage, cmSearchParams, error,
                   showDeleteConfirmation, contactToDelete, selectedRows, fileInputValue,
                   cmInflight, deletes, bulkUpdates, uploads>>
    /\ UNCHANGED <<listingVars, filterVars>>

(* handleBulkStatusConfirm up to `await Promise.all`: the calls are made.   *)
(* The handler is also run with no dialog open, when its guard returns.     *)
HandleBulkStatusConfirm ==
    /\ cmPc = "mounted"
    /\ BagCardinality(cmInflight) < MaxInflight
    /\ IF bulkStatusToSet = Null
       THEN /\ cmLast' = [op |-> "bulkStatusConfirm", calls |-> EmptyBag, toasts |-> <<>>]
            /\ UNCHANGED bulkUpdates
       ELSE /\ Cardinality(bulkUpdates) < MaxPending
            /\ bulkUpdates' = bulkUpdates \cup
                  {[ids |-> SelectedIds(selectedRows), status |-> bulkStatusToSet,
                    closure |-> Closure]}
            /\ cmLast' = [op |-> "bulkStatusConfirm",
                          calls |-> SetToBag({[fn |-> "updateContactStatus", id |-> id,
                                               status |-> bulkStatusToSet] :
                                              id \in SelectedIds(selectedRows)}),
                          toasts |-> <<>>]
    /\ UNCHANGED <<cmPc, contactsData, loading, cmCurrentPage, cmSearchParams, error,
                   showDeleteConfirmation, contactToDelete, selectedRows,
                   showBulkStatusConfirmation, bulkStatusToSet, fileInputValue,
                   cmInflight, deletes, uploads>>
    /\ UNCHANGED <<listingVars, filterVars>>

(* handleBulkStatusConfirm after `await Promise.all`: `failed` are the ids  *)
(* whose updateContactStatus call rejected.                                 *)
BulkStatusDone(b, failed) ==
    /\ b \in bulkUpdates
    /\ bulkUpdates' = bulkUpdates \ {b}
    /\ IF failed = {}
       THEN /\ selectedRows' = <<>>
            /\ cmInflight' = Refetch(cmInflight, b.closure)
            /\ loading' = TRUE
            /\ error' = Null
            /\ cmLast' = [op |-> "bulkStatusOk", update |-> b, calls |-> EmptyBag,
                          toasts |-> << <<"success", "Status Updated">> >>]
       ELSE /\ cmLast' = [op |-> "bulkStatusFailed", update |-> b, calls |-> EmptyBag,
                          toasts |-> << <<"error", "Status Update Failed">> >>]
            /\ UNCHANGED <<selectedRows, cmInflight, loading, error>>
    /\ showBulkStatusConfirmation' = FALSE
    /\ bulkStatusToSet' = Null
    /\ UNCHANGED <<cmPc, contactsData, cmCurrentPage, cmSearchParams,
                   showDeleteConfirmation, contactToDelete, fileInputValue, deletes,
                   uploads>>
    /\ UNCHANGED <<listingVars, filterVars>>

(* The bulk-status dialog's onCancel.                                       *)
BulkStatusCancel ==
    /\ cmPc = "mounted"
    /\ showBulkStatusConfirmation
    /\ showBulkStatusConfirmation' = FALSE
    /\ bulkStatusToSet' = Null
    /\ cmLast' = [op |-> "bulkStatusCancel", calls |-> EmptyBag, toasts |-> <<>>]
    /\ UNCHANGED <<cmPc, contactsData, loading, cmCurrentPage, cmSearchParams, error,
                   showDeleteConfirmation, contactToDelete, selectedRows, fileInputValue,
                   cmInflight, deletes, bulkUpdates, uploads>>
    /\ UNCHANGED <<listingVars, filterVars>>

\* What bulkImportContacts answers with: a file validation error, an import
\* result (with or without the list of row errors), or neither.
UploadResponses ==
    { [file |-> << <<"The file must be a csv">> >>],
      [success |-> 2, failure |-> 0],
      [success |-> 1, failure |-> 2,
       erros |-> << [row |-> 2, message |-> <<"SQLSTATE[23000]", "Column", "email", "cannot">>],
                    [row |-> 3, message |-> <<"Invalid", "phone">>] >>],
      [success |-> 0, failure |-> 1],
      [message |-> <<"ok">>] }

\* error.message.match(/Column '(.+?)' cannot/)?.[1] || 'unknown field'
ColumnOf(message) ==
    LET at == {i \in 1..(Len(message) - 2) : message[i] = "Column" /\ message[i + 2] = "cannot"}
    IN  IF at = {} THEN "unknown field"
        ELSE message[(CHOOSE i \in at : \A j \in at : i <= j) + 1]

\* The text of the toast of one entry of response.erros
ImportErrorMessage(e) ==
    IF \E i \in DOMAIN e.message : e.message[i] = "SQLSTATE[23000]"
    THEN <<"Row", e.row, "Missing required field:", ColumnOf(e.message)>>
    ELSE <<"Row", e.row>> \o e.message

\* The toasts handleBulkUpload shows for a response.
UploadToasts(response) ==
    IF "file" \in DOMAIN response
    THEN << <<"error", "File Validation Error", response.file[1]>> >>
    ELSE IF "success" \in DOMAIN response
    THEN IF "failure" \in DOMAIN response /\ response.failure = 0
         THEN << <<"success", "Import Complete", response.success>> >>
         ELSE << <<"error", "Partial Import", response.success>> >>
              \o (IF "erros" \in DOMAIN response
                  THEN [i \in DOMAIN response.erros |->
                           <<"error", "Import Error", ImportErrorMessage(response.erros[i])>>]
                  ELSE <<>>)
    ELSE <<>>

\* Whether handleBulkUpload reaches fetchContacts(currentPage) for a response.
UploadRefetches(response) == "file" \notin DOMAIN response /\ "success" \in DOMAIN response

(* handleBulkUpload(e) up to `await bulkImportContacts(file)`; `file` is    *)
(* e.target.files?.[0], Null when no file was chosen.                       *)
HandleBulkUpload(file) ==
    /\ cmPc = "mounted" /\ ~DialogOpen
    /\ BagCardinality(cmInflight) < MaxInflight
    /\ IF file = Null
       THEN /\ cmLast' = [op |-> "upload", file |-> file, calls |-> EmptyBag, toasts |-> <<>>]
            /\ UNCHANGED <<uploads, fileInputValue>>
       ELSE /\ Cardinality(uploads) < MaxPending
            /\ uploads' = uploads \cup {[file |-> file, closure |-> Closure]}
            /\ fileInputValue' = file.name
            /\ cmLast' = [op |-> "upload", file |-> file,
                          calls |-> SetToBag({[fn |-> "bulkImportContacts", file |-> file]}),
                          toasts |-> << <<"success", "Upload Started">> >>]
    /\ UNCHANGED <<cmPc, contactsData, loading, cmCurrentPage, cmSearchParams, error,
                   showDeleteConfirmation, contactToDelete, selectedRows,
                   showBulkStatusConfirmation, bulkStatusToSet, cmInflight, deletes,
                   bulkUpdates>>
    /\ UNCHANGED <<listingVars, filterVars>>

(* handleBulkUpload after the await: bulkImportContacts resolved.           *)
UploadResolved(u, response) ==
    /\ u \in uploads
    /\ uploads' = uploads \ {u}
    /\ IF UploadRefetches(response)
       THEN /\ cmInflight' = Refetch(cmInflight, u.closure)
            /\ loading' = TRUE
            /\ error' = Null
       ELSE UNCHANGED <<cmInflight, loading, error>>
    /\ fileInputValue' = <<>>
    /\ cmLast' = [op |-> "uploadResolved", upload |-> u, response |-> response,
                  calls |-> EmptyBag, toasts |-> UploadToasts(response)]
    /\ UNCHANGED <<cmPc, contactsData, cmCurrentPage, cmSearchParams,
                   showDeleteConfirmation, contactToDelete, selectedRows,
                   showBulkStatusConfirmation, bulkStatusToSet, deletes, bulkUpdates>>
    /\ UNCHANGED <<listingVars, filterVars>>

(* handleBulkUpload's catch: bulkImportContacts rejected.                   *)
UploadRejected(u) ==
    /\ u \in uploads
    /\ uploads' = uploads \ {u}
    /\ fileInputValue' = <<>>
    /\ cmLast' = [op |-> "uploadRejected", upload |-> u, calls |-> EmptyBag,
                  toasts |-> << <<"error", "Import Failed">> >>]
    /\ UNCHANGED <<cmPc, contactsData, loading, cmCurrentPage, cmSearchParams, error,
                   showDeleteConfirmation, contactToDelete, selectedRows,
                   showBulkStatusConfirmation, bulkStatusToSet, cmInflight, deletes,
                   bulkUpdates>>
    /\ UNCHANGED <<listingVars, filterVars>>

(* The console's list and the deletion of one contact.                      *)
AdminDeleteNext ==
    \/ CMMount
    \/ \E p \in 1..CmLastPage : PageChange(p)
    \/ \E r \in BagToSet(cmInflight) : CMFetchSuccess(r)
    \/ \E r \in BagToSet(cmInflight) : \E status \in {422, 500} : CMFetchFailure(r, status)
    \/ \E i \in DOMAIN ShownContacts : HandleDeleteClick(ShownContacts[i])
    \/ HandleDeleteConfirm
    \/ \E d \in deletes : \E ok \in BOOLEAN : DeleteDone(d, ok)
    \/ DeleteCancel

(* The console's list and the bulk status change.                           *)
AdminBulkNext ==
    \/ CMMount
    \/ \E p \in 1..CmLastPage : PageChange(p)
    \/ \E r \in BagToSet(cmInflight) : CMFetchSuccess(r)
    \/ \E r \in BagToSet(cmInflight) : \E status \in {422, 500} : CMFetchFailure(r, status)
    \/ \E sel \in RowSelections(ShownContacts) : SelectRows(sel)
    \/ \E status \in BulkStatuses : HandleBulkStatusClick(status)
    \/ HandleBulkStatusConfirm
    \/ \E b \in bulkUpdates : \E failed \in SUBSET b.ids : BulkStatusDone(b, failed)
    \/ BulkStatusCancel

(* The console's list and the bulk import.                                  *)
AdminUploadNext ==
    \/ CMMount
    \/ \E p \in 1..CmLastPage : PageChange(p)
    \/ \E r \in BagToSet(cmInflight) : CMFetchSuccess(r)
    \/ \E r \in BagToSet(cmInflight) : \E status \in {422, 500} : CMFetchFailure(r, status)
    \/ \E file \in {Null, [name |-> <<"contacts.csv">>]} : HandleBulkUpload(file)
    \/ \E u \in uploads : \E response \in UploadResponses : UploadResolved(u, response)
    \/ \E u \in uploads : UploadRejected(u)

(* The console's list: searching and paging.                                *)
AdminFetchNext ==
    \/ CMMount
    \/ \E k \in CmKeys : \E v \in CmTextInputs(k) : SetSearchParam(k, v)
    \/ \E p \in 1..CmLastPage : PageChange(p)
    \/ ApplyFilters
    \/ ClearFilters
    \/ \E r \in BagToSet(cmInflight) : CMFetchSuccess(r)
    \/ \E r \in BagToSet(cmInflight) : \E status \in {422, 500} : CMFetchFailure(r, status)

----------------------------------------------------------------------------
(* ListingPage and the desktop FilterPanel it renders while showFilters     *)

\* The onFilter calls a FilterPanel makes when it mounts: its three
\* handleChange effects, run with the state of its first render.
PanelMountCalls ==
    EffectCalls(TextKeys, initialFilters,
                [person_name |-> <<>>, designation |-> <<>>, city |-> <<>>])

\* handleFilter's toasts for a batch of onFilter calls.
RECURSIVE CallsToasts(_)
CallsToasts(calls) ==
    IF calls = <<>> THEN <<>>
    ELSE FilterToasts(NewFilters(Head(calls).filters)) \o CallsToasts(Tail(calls))

(* setShowFilters(!showFilters) of a toggle button, or setShowFilters(false) *)
(* of the drawer's close button while the panel is shown; the render that   *)
(* follows and its effects.  The save effect stores the new visibility.     *)
(* When the panel becomes visible the desktop FilterPanel is mounted anew:  *)
(* its effects call onFilter = handleFilter, the last setSearchParams wins, *)
(* and the searchParams effect of the next render resets the list and       *)
(* fetches page 1.                                                          *)
ToggleFilters ==
    LET calls == IF ~showFilters THEN PanelMountCalls ELSE <<>> IN
    /\ pc = "mounted"
    /\ showFilters' = ~showFilters
    /\ storage' = SetItem(storage, VisibilityKey, BoolToString(showFilters'))
    /\ IF calls # <<>>
       THEN /\ BagCardinality(inflight) < MaxInflight
            /\ searchParams' = NewFilters(calls[Len(calls)].filters)
            /\ currentPage' = 1
            /\ allContacts' = <<>>
            /\ hasMoreData' = TRUE
            /\ isLoading' = TRUE
            /\ inflight' = inflight (+) SetToBag({Request(searchParams', 1, FALSE)})
       ELSE UNCHANGED <<searchParams, currentPage, allContacts, hasMoreData, isLoading,
                        inflight>>
    /\ last' = [op |-> "toggleFilters", calls |-> calls, toasts |-> CallsToasts(calls)]
    /\ UNCHANGED <<pc, totalItems, coins, isLoadingMore, reveals>>
    /\ UNCHANGED <<filterVars, adminVars>>

(* The page is left: the component's state is discarded, the storage stays. *)
(* What a request still in flight does when it completes no longer reaches  *)
(* any state of the page.                                                   *)
Unmount ==
    /\ pc = "mounted"
    /\ reveals = {}
    /\ pc' = "constructed"
    /\ allContacts' = <<>>
    /\ currentPage' = 1
    /\ hasMoreData' = TRUE
    /\ isLoading' = TRUE
    /\ totalItems' = 0
    /\ searchParams' = InitialSearchParams
    /\ isLoadingMore' = FALSE
    /\ inflight' = EmptyBag
    /\ showFilters' = TRUE
    /\ last' = [op |-> "unmount", toasts |-> <<>>]
    /\ UNCHANGED <<coins, reveals, storage>>
    /\ UNCHANGED <<filterVars, adminVars>>

(* The listing with the filter panel shown and hidden, and the page left    *)
(* and opened again.                                                        *)
VisibilityNext ==
    \/ Mount
    \/ \E i \in 1..Len(FilterInputs) : HandleFilter(FilterInputs[i])
    \/ LoadMoreContacts
    \/ \E r \in BagToSet(inflight) : FetchSuccess(r)
    \/ \E r \in BagToSet(inflight) : FetchFailure(r)
    \/ ToggleFilters
    \/ Unmount

Init == ListingInit /\ FilterInit /\ AdminInit

SpecListing == Init /\ [][ListingNext]_vars

\* Every getContacts request is answered or fails.
SpecListingFair ==
    /\ SpecListing
    /\ WF_vars(\E r \in BagToSet(inflight) : FetchSuccess(r) \/ FetchFailure(r))

SpecVisibility == Init /\ [][VisibilityNext]_vars

SpecFilter == Init /\ [][FilterNext]_vars

SpecAdminFetch == Init /\ [][AdminFetchNext]_vars

SpecAdminDelete == Init /\ [][AdminDeleteNext]_vars

SpecAdminBulk == Init /\ [][AdminBulkNext]_vars

SpecAdminUpload == Init /\ [][AdminUploadNext]_vars

----------------------------------------------------------------------------
(* Claims about ListingPage, checked under SpecListing *)

\* C1: when a load-more fetch succeeds, allContacts becomes the list held just
\* before the response followed by response.data, in response order: nothing
\* loaded before is removed, reordered or replaced.
C1_LoadMoreAppends ==
    [][(last'.op = "fetchOk" /\ last'.req.isLoadMore) =>
          /\ Len(allContacts') = Len(allContacts) + Len(last'.response.data)
          /\ \A i \in 1..Len(allContacts) : allContacts'[i] = allContacts[i]
          /\ \A j \in 1..Len(last'.response.data) :
                 allContacts'[Len(allContacts) + j] = last'.response.data[j]]_vars

\* C1's case: a load-more response with data was appended to a non-empty list.
C1_Witness ==
    /\ last.op = "fetchOk"
    /\ last.req.isLoadMore
    /\ last.response.data # <<>>
    /\ Len(allContacts) > Len(last.response.data)

\* C2: whenever searchParams changes the infinite scroll is reset (allContacts
\* empty, currentPage 1, hasMoreData true) and one more page-1 non-load-more
\* request with the new searchParams is in flight; when a non-load-more request
\* succeeds allContacts is exactly response.data and currentPage is 1.
C2_FilterChangeResets ==
    [][/\ (searchParams' # searchParams) =>
              /\ allContacts' = <<>>
              /\ currentPage' = 1
              /\ hasMoreData' = TRUE
              /\ CopiesIn(Request(searchParams', 1, FALSE), inflight')
                   = CopiesIn(Request(searchParams', 1, FALSE), inflight) + 1
       /\ (last'.op = "fetchOk" /\ ~last'.req.isLoadMore) =>
              /\ allContacts' = last'.response.data
              /\ currentPage' = 1]_vars

\* C2's case: the page-1 request of a changed, non-empty filter succeeded while
\* those filters are still the applied ones, and its data replaced the list.
C2_Witness ==
    /\ last.op = "fetchOk"
    /\ ~last.req.isLoadMore
    /\ QueryOf(last.req.params) # {}
    /\ last.req = Request(searchParams, 1, FALSE)
    /\ allContacts # <<>>

\* C3: when revealContact(contact.id) succeeds, exactly the entries of
\* allContacts whose id is contact.id become the old entry overlaid with the
\* fields of response.contact (server fields win), every other entry, the
\* length and the order are unchanged, and coins is response.available_credit.
C3_RevealPatchesOnlyTheContact ==
    [][(last'.op = "revealOk") =>
          LET id == last'.contact.id
              r  == last'.response.contact
          IN  /\ Len(allContacts') = Len(allContacts)
              /\ \A i \in 1..Len(allContacts) :
                    IF allContacts[i].id = id
                    THEN /\ DOMAIN allContacts'[i] = DOMAIN allContacts[i] \cup DOMAIN r
                         /\ \A f \in DOMAIN r : allContacts'[i][f] = r[f]
                         /\ \A f \in DOMAIN allContacts[i] \ DOMAIN r :
                                allContacts'[i][f] = allContacts[i][f]
                    ELSE allContacts'[i] = allContacts[i]
              /\ coins' = last'.response.available_credit]_vars

\* C3's case: a reveal succeeded for a contact of the list, which also holds
\* another contact, and the revealed fields are in the entry.
C3_Witness ==
    /\ last.op = "revealOk"
    /\ \E i \in DOMAIN allContacts :
          /\ allContacts[i].id = last.contact.id
          /\ allContacts[i].email = last.response.contact.email
          /\ allContacts[i].person_name = last.contact.person_name
    /\ \E j \in DOMAIN allContacts : allContacts[j].id # last.contact.id
    /\ coins = last.response.available_credit

\* C6: the scroll trigger is enabled exactly when isLoading is false and
\* hasMoreData is true, so loadMoreContacts issues no request while an
\* initial/filter (non-load-more) fetch is in progress.
C6_NoLoadMoreDuringInitialFetch ==
    [][(last'.op = "loadMore") =>
          /\ ~isLoading /\ hasMoreData
          /\ \A r \in BagToSet(inflight) : r.isLoadMore]_vars

----------------------------------------------------------------------------
(* Claims about FilterPanel, checked under SpecFilter *)

\* C4 with the mount set apart: typing in the person-name, designation or
\* city input changes only the local input state and makes no onFilter call;
\* the input's effect calls handleChange (and so onFilter) when the panel
\* mounts and afterwards only when the input's debounced value has changed,
\* each time with filters whose field equals the debounced value.
C4_TypingIsDebounced ==
    [][/\ (fpLast'.op = "type") =>
              /\ fpLast'.calls = <<>>
              /\ filters' = filters
              /\ Debounced' = Debounced
              /\ <<selectedCompanies, selectedPersonCountries, selectedCompanyCountries>>'
                   = <<selectedCompanies, selectedPersonCountries, selectedCompanyCountries>>
              /\ \A k \in {"person_name", "designation", "city"} :
                    k # fpLast'.key => LocalText'[k] = LocalText[k]
       /\ \A i \in DOMAIN fpLast'.calls :
              (fpLast'.calls[i].via = "effect") =>
                  LET k == fpLast'.calls[i].key
                  IN  /\ fpLast'.op = "mount" \/ Debounced'[k] # effectDeps[k]
                      /\ fpLast'.calls[i].filters[k] = Str(Debounced'[k])]_vars

\* C4's case: a typed value reached onFilter through its debounced value.
C4_Witness ==
    /\ fpLast.op = "commit"
    /\ Len(fpLast.calls) = 1
    /\ fpLast.calls[1].key = "city"
    /\ fpLast.calls[1].filters.city = Str(<<"a">>)
    /\ localCity = <<"a">>

\* C4 as stated: typing in a debounced input changes only its local state and
\* calls no onFilter; the input's effect calls onFilter only when the input's
\* debounced value changes, and then with the field equal to that value.
C4_OnlyOnDebouncedChange ==
    [][/\ (fpLast'.op = "type") =>
              /\ fpLast'.calls = <<>>
              /\ filters' = filters
       /\ \A i \in DOMAIN fpLast'.calls :
              (fpLast'.calls[i].via = "effect") =>
                  LET k == fpLast'.calls[i].key
                  IN  /\ Debounced'[k] # effectDeps[k]
                      /\ fpLast'.calls[i].filters[k] = Str(Debounced'[k])]_vars

\* C5: the filters handleChange(key, value) passes to onFilter are the latest
\* values of every field with only `key` replaced; when several debounced
\* inputs settle in one render, the last onFilter call of that commit carries
\* the new value of every one of them, and the filters state ends equal to it.
C5_NoUpdateLost ==
    (fpLast.op = "commit") =>
        /\ \A i \in DOMAIN fpLast.keys :
              fpLast.calls[Len(fpLast.calls)].filters[fpLast.keys[i]]
                = Str(Debounced[fpLast.keys[i]])
        /\ filters = fpLast.calls[Len(fpLast.calls)].filters

----------------------------------------------------------------------------
(* Claims about ContactManagement's list, checked under SpecAdminFetch *)

\* The argument of getContacts the claim C8 describes for page p: per_page 10
\* and exactly the searchParams entries with a character that is not a space.
C8_Expected(sp, p) ==
    [filters |-> [k \in {x \in CmKeys : \E i \in DOMAIN sp[x] : sp[x][i] # " "} |-> sp[k]],
     page |-> p, per_page |-> 10]

\* C8: whenever currentPage changes to p, and once on mount, a getContacts
\* request for page p with per_page 10 is issued that carries exactly the
\* searchParams entries whose value is non-empty after trimming; when a
\* request succeeds contactsData becomes its response.
C8_PageFetch ==
    [][/\ (cmCurrentPage' # cmCurrentPage \/ cmLast'.op = "mount") =>
              CopiesIn(C8_Expected(cmSearchParams', cmCurrentPage'), cmInflight')
                > CopiesIn(C8_Expected(cmSearchParams', cmCurrentPage'), cmInflight)
       /\ (cmLast'.op = "fetchOk") => contactsData' = cmLast'.response]_vars

\* C8's case: the page was changed while one search field is blank and one
\* holds text with a space; the response to that request became contactsData.
C8_Witness ==
    /\ cmLast.op = "fetchOk"
    /\ cmLast.req.page = 2
    /\ cmCurrentPage = 2
    /\ cmSearchParams.designation = <<" ">>
    /\ cmSearchParams.company_name = <<" ", "a">>
    /\ cmLast.req = C8_Expected(cmSearchParams, 2)
    /\ contactsData = cmLast.response

-----------------------------------------------------------------------------
(* Claims about deleting one contact, checked under SpecAdminDelete *)

-----------------------------------------------------------------------------
(* Claims about the bulk status change, checked under SpecAdminBulk *)

\* C9: handleBulkStatusConfirm with bulkStatusToSet null does nothing;
\* otherwise updateContactStatus(id, status) is called once per id whose entry
\* of selectedRows is true.  When all calls succeed selectedRows becomes empty
\* and the current page is refetched; when one fails selectedRows is unchanged
\* and nothing is fetched; either way the dialog closes and bulkStatusToSet
\* becomes null.
C9_BulkStatusChange ==
    [][/\ (cmLast'.op = "bulkStatusConfirm") =>
              IF bulkStatusToSet = Null
              THEN /\ cmLast'.calls = EmptyBag
                   /\ UNCHANGED <<cmPc, contactsData, loading, cmCurrentPage,
                                  cmSearchParams, error, showDeleteConfirmation,
                                  contactToDelete, selectedRows,
                                  showBulkStatusConfirmation, bulkStatusToSet,
                                  fileInputValue, cmInflight, deletes, bulkUpdates,
                                  uploads>>
              ELSE cmLast'.calls =
                       SetToBag({[fn |-> "updateContactStatus", id |-> id,
                                  status |-> bulkStatusToSet] :
                                 id \in {x \in DOMAIN selectedRows : selectedRows[x] = TRUE}})
       /\ (cmLast'.op = "bulkStatusOk") =>
              /\ selectedRows' = <<>>
              /\ \E q \in BagToSet(cmInflight') :
                    /\ q.page = cmCurrentPage
                    /\ cmInflight' = cmInflight (+) SetToBag({q})
              /\ ~showBulkStatusConfirmation'
              /\ bulkStatusToSet' = Null
       /\ (cmLast'.op = "bulkStatusFailed") =>
              /\ selectedRows' = selectedRows
              /\ cmInflight' = cmInflight
              /\ ~showBulkStatusConfirmation'
              /\ bulkStatusToSet' = Null]_vars

\* C9 with the page of the refetch read as the page the confirm handler saw
\* when it was called.
C9_RefetchesThePageOfTheConfirm ==
    [][/\ (cmLast'.op = "bulkStatusConfirm") =>
              IF bulkStatusToSet = Null
              THEN /\ cmLast'.calls = EmptyBag
                   /\ UNCHANGED <<cmPc, contactsData, loading, cmCurrentPage,
                                  cmSearchParams, error, showDeleteConfirmation,
                                  contactToDelete, selectedRows,
                                  showBulkStatusConfirmation, bulkStatusToSet,
                                  fileInputValue, cmInflight, deletes, bulkUpdates,
                                  uploads>>
              ELSE cmLast'.calls =
                       SetToBag({[fn |-> "updateContactStatus", id |-> id,
                                  status |-> bulkStatusToSet] :
                                 id \in {x \in DOMAIN selectedRows : selectedRows[x] = TRUE}})
       /\ (cmLast'.op = "bulkStatusOk") =>
              /\ selectedRows' = <<>>
              /\ \E q \in BagToSet(cmInflight') :
                    /\ q.page = cmLast'.update.closure.page
                    /\ cmInflight' = cmInflight (+) SetToBag({q})
              /\ ~showBulkStatusConfirmation'
              /\ bulkStatusToSet' = Null
       /\ (cmLast'.op = "bulkStatusFailed") =>
              /\ selectedRows' = selectedRows
              /\ cmInflight' = cmInflight
              /\ ~showBulkStatusConfirmation'
              /\ bulkStatusToSet' = Null]_vars

-----------------------------------------------------------------------------
(* Claims about the bulk import, checked under SpecAdminUpload *)

\* C10: handleBulkUpload with no file does nothing.  With a file: a response
\* with a `file` field shows an error and fetches nothing; a response with
\* `success` refetches the current page, with a success toast exactly when
\* failure = 0 and otherwise a partial-import error and one error toast per
\* entry of response.erros; a rejected call fetches nothing; in every outcome
\* the file input's value becomes empty.
C10_BulkUpload ==
    [][/\ (cmLast'.op = "upload" /\ cmLast'.file = Null) =>
              /\ cmLast'.calls = EmptyBag
              /\ cmLast'.toasts = <<>>
              /\ UNCHANGED <<cmPc, contactsData, loading, cmCurrentPage, cmSearchParams,
                             error, showDeleteConfirmation, contactToDelete, selectedRows,
                             showBulkStatusConfirmation, bulkStatusToSet, fileInputValue,
                             cmInflight, deletes, bulkUpdates, uploads>>
       /\ (cmLast'.op = "uploadResolved") =>
              LET r == cmLast'.response
                  t == cmLast'.toasts
                  n == IF "erros" \in DOMAIN r THEN Len(r.erros) ELSE 0
              IN  /\ ("file" \in DOMAIN r) =>
                        /\ \E i \in DOMAIN t : t[i][1] = "error"
                        /\ cmInflight' = cmInflight
                  /\ ("file" \notin DOMAIN r /\ "success" \in DOMAIN r) =>
                        /\ \E q \in BagToSet(cmInflight') :
                              /\ q.page = cmCurrentPage
                              /\ cmInflight' = cmInflight (+) SetToBag({q})
                        /\ (\E i \in DOMAIN t : t[i][1] = "success") <=> (r.failure = 0)
                        /\ (r.failure # 0) =>
                              /\ \E i \in DOMAIN t : t[i][2] = "Partial Import"
                              /\ Cardinality({i \in DOMAIN t : t[i][2] = "Import Error"}) = n
                  /\ fileInputValue' = <<>>
       /\ (cmLast'.op = "uploadRejected") =>
              /\ cmInflight' = cmInflight
              /\ fileInputValue' = <<>>]_vars

\* C10 with the page of the refetch read as the page handleBulkUpload saw when
\* the file was chosen.
C10_RefetchesThePageOfTheUpload ==
    [][/\ (cmLast'.op = "upload" /\ cmLast'.file = Null) =>
              /\ cmLast'.calls = EmptyBag
              /\ cmLast'.toasts = <<>>
              /\ UNCHANGED <<cmPc, contactsData, loading, cmCurrentPage, cmSearchParams,
                             error, showDeleteConfirmation, contactToDelete, selectedRows,
                             showBulkStatusConfirmation, bulkStatusToSet, fileInputValue,
                             cmInflight, deletes, bulkUpdates, uploads>>
       /\ (cmLast'.op = "uploadResolved") =>
              LET r == cmLast'.response
                  t == cmLast'.toasts
                  n == IF "erros" \in DOMAIN r THEN Len(r.erros) ELSE 0
              IN  /\ ("file" \in DOMAIN r) =>
                        /\ \E i \in DOMAIN t : t[i][1] = "error"
                        /\ cmInflight' = cmInflight
                  /\ ("file" \notin DOMAIN r /\ "success" \in DOMAIN r) =>
                        /\ \E q \in BagToSet(cmInflight') :
                              /\ q.page = cmLast'.upload.closure.page
                              /\ cmInflight' = cmInflight (+) SetToBag({q})
                        /\ (\E i \in DOMAIN t : t[i][1] = "success") <=> (r.failure = 0)
                        /\ (r.failure # 0) =>
                              /\ \E i \in DOMAIN t : t[i][2] = "Partial Import"
                              /\ Cardinality({i \in DOMAIN t : t[i][2] = "Import Error"}) = n
                  /\ fileInputValue' = <<>>
       /\ (cmLast'.op = "uploadRejected") =>
              /\ cmInflight' = cmInflight
              /\ fileInputValue' = <<>>]_vars

-----------------------------------------------------------------------------
(* Claims about the stored visibility of the filter panel, checked under    *)
(* SpecVisibility                                                           *)

\* C11: on mount, if the key holds a value, showFilters becomes (value =
\* 'true') and, the mount effects having run, the stored value is the one
\* stored before the mount; whenever showFilters has changed, and after the
\* mount, the stored value is showFilters as a string; leaving the page keeps
\* the stored value, which is the visibility chosen last, so that the next
\* mount restores it.
C11_VisibilityRoundTrip ==
    [][/\ (last'.op = "mount" /\ storage.contactsFilterVisibility # Null) =>
              /\ showFilters' = (storage.contactsFilterVisibility = Str(<<"true">>))
              /\ storage'.contactsFilterVisibility = storage.contactsFilterVisibility
       /\ (pc' = "mounted" /\ (last'.op = "mount" \/ showFilters' # showFilters)) =>
              storage'.contactsFilterVisibility
                = (IF showFilters' THEN Str(<<"true">>) ELSE Str(<<"false">>))
       /\ (last'.op = "unmount") =>
              /\ storage' = storage
              /\ storage.contactsFilterVisibility
                   = (IF showFilters THEN Str(<<"true">>) ELSE Str(<<"false">>))]_vars

\* C11's case: the panel was hidden, the page left and opened again; the
\* mount restored the hidden panel from the stored 'false'.
C11_Witness ==
    /\ last.op = "mount"
    /\ pc = "mounted"
    /\ ~showFilters
    /\ storage.contactsFilterVisibility = Str(<<"false">>)

-----------------------------------------------------------------------------
(* Claims about ListingPage's fetches and reveals, checked under SpecListing *)

\* C12: after every successful fetch, load-more or not, totalItems is
\* response.total and hasMoreData is (response.current_page < response.last_page).
C12_TotalsAfterFetch ==
    [][(last'.op = "fetchOk") =>
           /\ totalItems' = last'.response.total
           /\ hasMoreData' = (last'.response.current_page < last'.response.last_page)]_vars

\* C12's case: a load-more brought the last page, and a first page that is not
\* the last one is told apart from it by hasMoreData.
C12_Witness ==
    /\ last.op = "fetchOk"
    /\ last.req.isLoadMore
    /\ last.response.current_page = last.response.last_page
    /\ ~hasMoreData
    /\ totalItems = last.response.total
    /\ totalItems > 0

\* C13: handleRevealContact with coins <= 50 refuses: no revealContact call,
\* coins and allContacts unchanged, an 'Insufficient credits' error toast;
\* revealContact is called only with coins > 50.
C13_RevealNeedsCredits ==
    [][/\ (last'.op \in {"revealRefused", "revealCall"} /\ coins <= 50) =>
              /\ last'.op = "revealRefused"
              /\ reveals' = reveals
              /\ coins' = coins
              /\ allContacts' = allContacts
              /\ last'.toasts = << <<"error", "Insufficient credits">> >>
       /\ (\E c \in reveals' : c \notin reveals) => coins > 50]_vars

\* C13's case: a reveal was asked for with exactly 50 credits and refused.
C13_Witness ==
    /\ last.op = "revealRefused"
    /\ coins = 50
    /\ reveals = {}

\* C14: when revealContact rejects, allContacts and coins are unchanged, the
\* error toast 'Failed to reveal contact information' is shown and no success
\* toast is.
C14_RevealFailureChangesNothing ==
    [][(last'.op = "revealFailed") =>
           /\ allContacts' = allContacts
           /\ coins' = coins
           /\ \E i \in DOMAIN last'.toasts :
                 last'.toasts[i] = <<"error", "Failed to reveal contact information">>
           /\ \A i \in DOMAIN last'.toasts : last'.toasts[i][1] # "success"]_vars

\* C14's case: a reveal failed for a contact of the list that is shown.
C14_Witness ==
    /\ last.op = "revealFailed"
    /\ \E i \in DOMAIN allContacts : allContacts[i].id = last.contact.id
    /\ coins > 50

\* C15: when getContacts fails, a fetch that is not a load-more empties
\* allContacts and sets totalItems 0 and hasMoreData false; a load-more leaves
\* the three unchanged; both show the error toast 'Failed to fetch contacts'.
C15_FetchFailure ==
    [][(last'.op = "fetchFailed") =>
           /\ IF last'.req.isLoadMore
              THEN /\ allContacts' = allContacts
                   /\ totalItems' = totalItems
                   /\ hasMoreData' = hasMoreData
              ELSE /\ allContacts' = <<>>
                   /\ totalItems' = 0
                   /\ hasMoreData' = FALSE
           /\ \E i \in DOMAIN last'.toasts :
                 last'.toasts[i] = <<"error", "Failed to fetch contacts">>]_vars

\* C15's case: a load-more failed while a page was shown.
C15_Witness ==
    /\ last.op = "fetchFailed"
    /\ last.req.isLoadMore
    /\ allContacts # <<>>
    /\ totalItems > 0
    /\ hasMoreData

\* C16: the main isLoading flag is true once a fetch that is not a load-more
\* has started, is set false by the step in which such a fetch completes,
\* with success or failure, and, every request being answered, is false
\* again at some later time; issuing or completing a load-more never changes
\* isLoading.
C16_LoadingFlag ==
    /\ [][/\ (\E r \in BagToSet(inflight') :
                 ~r.isLoadMore /\ CopiesIn(r, inflight') > CopiesIn(r, inflight)) =>
                 isLoading'
          /\ (last'.op \in {"fetchOk", "fetchFailed"} /\ ~last'.req.isLoadMore) =>
                 ~isLoading'
          /\ (last'.op = "loadMore"
                \/ (last'.op \in {"fetchOk", "fetchFailed"} /\ last'.req.isLoadMore)) =>
                 isLoading' = isLoading]_vars
    /\ ((pc = "mounted" /\ isLoading) ~> ~isLoading)

\* C16's case: a filter fetch failed while a load-more was in flight, and the
\* flag went false.
C16_Witness ==
    /\ last.op = "fetchFailed"
    /\ ~last.req.isLoadMore
    /\ ~isLoading
    /\ \E r \in BagToSet(inflight) : r.isLoadMore

\* C17: with no request in flight, the list that is shown is made of the
\* pages 1..currentPage, each one once and in increasing order.
C17_PagesOneToCurrent ==
    (pc = "mounted" /\ inflight = EmptyBag /\ allContacts # <<>>) =>
        /\ Len(allContacts) = currentPage * PageLen
        /\ \A i \in DOMAIN allContacts : allContacts[i].id[2] = ((i - 1) \div PageLen) + 1

\* C18: with no request in flight, every contact of the list was returned for
\* the query of the current searchParams.
C18_NoStaleContacts ==
    (pc = "mounted" /\ inflight = EmptyBag) =>
        \A i \in DOMAIN allContacts :
            allContacts[i].id[1] = QueryOf(ApiParams(searchParams, 1))

\* C20: every handleFilter call sets searchParams to the eight fields it
\* received; the success toast 'Applied N filter(s)' is shown exactly when a
\* field is non-empty, N being the number of non-empty fields, and no toast
\* when every field is empty.
C20_FilterToast ==
    [][(last'.op = "handleFilter") =>
           LET f == last'.filters
               n == Cardinality({k \in FilterKeys :
                                    IF "a" \in DOMAIN f[k] THEN f[k].a # <<>> ELSE f[k].s # <<>>})
           IN  /\ DOMAIN searchParams' = FilterKeys
               /\ \A k \in FilterKeys : searchParams'[k] = f[k]
               /\ last'.toasts =
                    (IF n = 0 THEN <<>>
                     ELSE << <<"success", "Applied", n,
                               IF n = 1 THEN "filter" ELSE "filters">> >>)]_vars

\* C20's case: filters with two non-empty fields, one of them an array, were
\* applied.
C20_Witness ==
    /\ last.op = "handleFilter"
    /\ last.toasts = << <<"success", "Applied", 2, "filters">> >>
    /\ searchParams.city = Str(<<"pune">>)
    /\ searchParams.company_name = Arr(<< <<"acme">>, <<"bayer">> >>)

-----------------------------------------------------------------------------
(* The claim about hiding and showing the filter panel, checked under       *)
(* SpecVisibility                                                           *)

\* C19: a toggle of the filter panel's visibility keeps searchParams, makes
\* no onFilter call with filters other than the applied ones, and does not
\* reset allContacts.
C19_ToggleKeepsFilters ==
    [][(last'.op = "toggleFilters") =>
           /\ searchParams' = searchParams
           /\ \A i \in DOMAIN last'.calls :
                 \A k \in FilterKeys : last'.calls[i].filters[k] = searchParams[k]
           /\ allContacts' = allContacts]_vars

====
